---- MODULE Spec2Model ----
(***************************************************************************)
(* Replay Tab Auto-Renamer (Caido frontend plugin).                        *)
(*                                                                         *)
(* The model follows the component of packages/frontend/src/index.ts       *)
(* (TabRenamerComponent): the persisted plugin storage, the polling timer, *)
(* the sync cycle checkAndRenameReplayTabs with its await points, and the  *)
(* pure helpers parseRawRequest and generateTabName.                       *)
(*                                                                         *)
(* Text is a sequence of one-character strings, so that parsing, trimming  *)
(* and truncation are computed character by character as the code does.   *)
(***************************************************************************)
EXTENDS Integers, Sequences, FiniteSets, TLC

(***************************************************************************)
(* Text helpers (JavaScript String methods used by the code)               *)
(***************************************************************************)

\* Characters String.prototype.trim and the regular expression \s remove.
WS == {" ", "\t", "\n", "\r"}

UpperAlpha == <<"A","B","C","D","E","F","G","H","I","J","K","L","M",
                "N","O","P","Q","R","S","T","U","V","W","X","Y","Z">>

LowerAlpha == <<"a","b","c","d","e","f","g","h","i","j","k","l","m",
                "n","o","p","q","r","s","t","u","v","w","x","y","z">>

Digits == {"0","1","2","3","4","5","6","7","8","9"}

Range(s) == {s[i] : i \in 1..Len(s)}

\* String.prototype.toLowerCase on one character.
ToLowerChar(c) ==
  IF \E i \in 1..26 : UpperAlpha[i] = c
    THEN LowerAlpha[CHOOSE i \in 1..26 : UpperAlpha[i] = c]
    ELSE c

ToLowerCase(s) == [i \in 1..Len(s) |-> ToLowerChar(s[i])]

RECURSIVE TrimStart(_)
TrimStart(s) ==
  IF s = <<>> THEN <<>>
  ELSE IF Head(s) \in WS THEN TrimStart(Tail(s)) ELSE s

RECURSIVE TrimEnd(_)
TrimEnd(s) ==
  IF s = <<>> THEN <<>>
  ELSE IF s[Len(s)] \in WS THEN TrimEnd(SubSeq(s, 1, Len(s) - 1)) ELSE s

\* String.prototype.trim
Trim(s) == TrimEnd(TrimStart(s))

\* String.prototype.startsWith
StartsWith(s, p) == Len(s) >= Len(p) /\ SubSeq(s, 1, Len(p)) = p

\* String.prototype.substring(from) with 0 <= from
SubstringFrom(s, from) == SubSeq(s, from + 1, Len(s))

\* String.prototype.substring(0, to): a negative end counts as 0, an end past
\* the length as the length.
Substring0(s, to) ==
  LET e == IF to < 0 THEN 0 ELSE IF to > Len(s) THEN Len(s) ELSE to
  IN SubSeq(s, 1, e)

\* raw.replace(/\r\n/g, '\n').replace(/\r/g, '\n')
RECURSIVE NormalizeNewlines(_)
NormalizeNewlines(s) ==
  IF s = <<>> THEN <<>>
  ELSE IF Head(s) = "\r"
    THEN IF Len(s) >= 2 /\ s[2] = "\n"
           THEN <<"\n">> \o NormalizeNewlines(SubstringFrom(s, 2))
           ELSE <<"\n">> \o NormalizeNewlines(Tail(s))
    ELSE <<Head(s)>> \o NormalizeNewlines(Tail(s))

\* String.prototype.split('\n'): the pieces between line feeds, empty ones kept.
RECURSIVE SplitLines(_)
SplitLines(s) ==
  IF \E i \in 1..Len(s) : s[i] = "\n"
    THEN LET i == CHOOSE j \in 1..Len(s) :
                    s[j] = "\n" /\ \A k \in 1..(j - 1) : s[k] # "\n"
         IN <<SubSeq(s, 1, i - 1)>> \o SplitLines(SubstringFrom(s, i))
    ELSE <<s>>

\* String.prototype.split(/\s+/): the pieces between maximal runs of
\* whitespace, an empty piece at either end kept.
RECURSIVE SplitWhitespace(_)
SplitWhitespace(s) ==
  IF \E i \in 1..Len(s) : s[i] \in WS
    THEN LET i == CHOOSE j \in 1..Len(s) :
                    s[j] \in WS /\ \A k \in 1..(j - 1) : s[k] \notin WS
         IN <<SubSeq(s, 1, i - 1)>> \o
            SplitWhitespace(TrimStart(SubstringFrom(s, i)))
    ELSE <<s>>

(***************************************************************************)
(* Request Parser                                                          *)
(***************************************************************************)

NoRequest == [ok |-> FALSE, method |-> <<>>, path |-> <<>>, host |-> <<>>]

HostPrefix == <<"h","o","s","t",":">>

IsNonBlank(line) == Trim(line) # <<>>

\* Variant: only the lower-case spelling is a Host header.
IsHostLine_CaseSensitive(line) == StartsWith(Trim(line), HostPrefix)

IsHostLine(line) == StartsWith(ToLowerCase(Trim(line)), HostPrefix)

\* The index of the first line that is not blank, 0 when there is none.
FirstNonBlank(lines) ==
  IF \E i \in 1..Len(lines) : IsNonBlank(lines[i])
    THEN CHOOSE i \in 1..Len(lines) :
           IsNonBlank(lines[i]) /\ \A k \in 1..(i - 1) : ~IsNonBlank(lines[k])
    ELSE 0

\* The index of the first Host header line, 0 when there is none.
FirstHostLine(lines) ==
  IF \E i \in 1..Len(lines) : IsHostLine(lines[i])
    THEN CHOOSE i \in 1..Len(lines) :
           IsHostLine(lines[i]) /\ \A k \in 1..(i - 1) : ~IsHostLine(lines[k])
    ELSE 0

\* Variant: the request line is looked for in the first line only.
parseRawRequest_FirstLine(raw) ==
  IF raw = <<>> THEN NoRequest
  ELSE
    LET lines == SplitLines(NormalizeNewlines(raw))
        parts == SplitWhitespace(Trim(lines[1]))
        hostIx == FirstHostLine(lines)
        host == IF hostIx = 0 THEN <<>>
                ELSE Trim(SubstringFrom(Trim(lines[hostIx]), 5))
    IN IF Len(parts) < 2 THEN NoRequest
       ELSE [ok |-> TRUE, method |-> parts[1], path |-> parts[2], host |-> host]

\* Variant: a request is made of any text, the whole text taken as the method.
parseRawRequest_Lenient(raw) ==
  [ok |-> TRUE, method |-> raw, path |-> <<"/">>, host |-> <<>>]

\* parseRawRequest: null (NoRequest) or {method, path, host}.
parseRawRequest(raw) ==
  IF raw = <<>> THEN NoRequest
  ELSE
    LET lines == SplitLines(NormalizeNewlines(raw))
        first == FirstNonBlank(lines)
    IN IF first = 0 THEN NoRequest
       ELSE
         LET requestLine == Trim(lines[first])
             parts == SplitWhitespace(requestLine)
             hostIx == FirstHostLine(lines)
             host == IF hostIx = 0 THEN <<>>
                     ELSE Trim(SubstringFrom(Trim(lines[hostIx]), 5))
         IN IF Len(parts) < 2 THEN NoRequest
            ELSE IF parts[1] = <<>> \/ parts[2] = <<>> THEN NoRequest
            ELSE [ok |-> TRUE, method |-> parts[1], path |-> parts[2],
                  host |-> host]

(***************************************************************************)
(* Name Generator                                                          *)
(***************************************************************************)

\* The characters /[^a-zA-Z0-9\/\-\_\.]/g keeps.
AllowedPathChars ==
  Range(UpperAlpha) \cup Range(LowerAlpha) \cup Digits \cup {"/", "-", "_", "."}

\* path.replace(/[?#].*$/, ''): everything from the first '?' or '#' is cut.
StripQuery(path) ==
  IF \E i \in 1..Len(path) : path[i] \in {"?", "#"}
    THEN LET i == CHOOSE j \in 1..Len(path) :
                    path[j] \in {"?", "#"} /\
                    \A k \in 1..(j - 1) : path[k] \notin {"?", "#"}
         IN SubSeq(path, 1, i - 1)
    ELSE path

\* Variant: the query string and the fragment are not cut.
CleanPath_KeepQuery(path) == SelectSeq(path, LAMBDA c : c \in AllowedPathChars)

CleanPath(path) == SelectSeq(StripQuery(path), LAMBDA c : c \in AllowedPathChars)

maxLength == 30

Ellipsis == <<".", ".", ".">>

\* Variant: the cleaned path is cut one character later.
DefaultTabName_CutLater(method, path) ==
  LET cleanPath == CleanPath(path)
      tabName == method \o <<" ">> \o cleanPath
  IN IF Len(tabName) > maxLength
       THEN method \o <<" ">> \o
            Substring0(cleanPath, maxLength - Len(method) - 3) \o Ellipsis
       ELSE tabName

\* The built-in default algorithm of generateTabName.
DefaultTabName(method, path) ==
  LET cleanPath == CleanPath(path)
      tabName == method \o <<" ">> \o cleanPath
  IN IF Len(tabName) > maxLength
       THEN method \o <<" ">> \o
            Substring0(cleanPath, maxLength - Len(method) - 4) \o Ellipsis
       ELSE tabName

(***************************************************************************)
(* Naming sources.  A naming source is user-written JavaScript; the model  *)
(* holds a few sources and what evaluating each one does.                  *)
(***************************************************************************)

\* The text getDefaultNamingFunction returns: the default algorithm as source.
DefaultSource == "default-source"

\* "" and " " are blank after trim(); "throw" throws an Error, "syntax" does
\* not compile (new Function throws a SyntaxError), "throwNull" is `throw null`,
\* "throwString" is `throw 'x'`, "host" returns the host argument, "number"
\* returns a non-string, "padded" returns ' ' + method + ' ', "random"
\* returns String(Math.random()).
Sources ==
  {"", " ", DefaultSource, "throw", "syntax", "throwNull", "throwString", "host",
   "number", "padded", "random"}

\* What the globals a source can read (Math.random, Date, window) give it
\* during one call.
Envs == {<<"0", ".", "1">>, <<"0", ".", "2">>}

\* customFunction.trim() is the empty string
IsBlankSource(src) == src \in {"", " "}

\* A call of the user function that returns
Returned(isString, val) ==
  [threw |-> FALSE, thrown |-> "none", isString |-> isString, val |-> val]

\* A call (or the compilation) of the user function that throws `thrown`
Threw(thrown) == [threw |-> TRUE, thrown |-> thrown, isString |-> FALSE, val |-> <<>>]

\* new Function('method','path','host', src)(method, path, host), called
\* where the globals give `env`.
EvalSource(src, method, path, host, env) ==
  CASE src = DefaultSource -> Returned(TRUE, DefaultTabName(method, path))
    [] src = "host" -> Returned(TRUE, host)
    [] src = "padded" -> Returned(TRUE, <<" ">> \o method \o <<" ">>)
    [] src = "random" -> Returned(TRUE, env)
    [] src = "number" -> Returned(FALSE, <<>>)
    [] src = "throwNull" -> Threw("null")
    [] src = "throwString" -> Threw("string")
    [] OTHER -> Threw("Error")

\* Variant: a source that throws leaves the call without a name.
generateTabName_EmptyOnThrow(src, method, path, host, env) ==
  IF IsBlankSource(src) \/ ~EvalSource(src, method, path, host, env).threw
    THEN DefaultTabName(method, path)
    ELSE <<>>

\* Variant: the fallback name carries what the globals give.
generateTabName_Stamped(src, method, path, host, env) ==
  IF IsBlankSource(src) THEN DefaultTabName(method, path)
  ELSE LET result == EvalSource(src, method, path, host, env)
       IN IF ~result.threw /\ result.isString /\ Trim(result.val) # <<>>
            THEN Trim(result.val)
            ELSE DefaultTabName(method, path) \o env

\* Variant: what the custom function returns is the name as it is.
generateTabName_Untrimmed(src, method, path, host, env) ==
  IF IsBlankSource(src) THEN DefaultTabName(method, path)
  ELSE LET result == EvalSource(src, method, path, host, env)
       IN IF ~result.threw /\ result.isString /\ result.val # <<>>
            THEN result.val
            ELSE DefaultTabName(method, path)

\* generateTabName(method, path, host) with namingFunction.value = src.
\* `host` is the argument as passed: <<>> stands for undefined (host || '').
\* The catch block reads the message of Error values only, so it never throws.
generateTabName(src, method, path, host, env) ==
  IF IsBlankSource(src) THEN DefaultTabName(method, path)
  ELSE LET result == EvalSource(src, method, path, host, env)
       IN IF ~result.threw /\ result.isString /\ Trim(result.val) # <<>>
            THEN Trim(result.val)
            ELSE DefaultTabName(method, path)

\* generateTabName of the localStorage variant (part_000): the same, but its
\* catch block reads error.message of whatever was thrown, which itself
\* throws a TypeError for null and undefined.  The result says whether the
\* call threw, and what it returned when it did not.
generateTabNamePart000(src, method, path, host, env) ==
  LET default == [threw |-> FALSE, val |-> DefaultTabName(method, path)]
  IN IF IsBlankSource(src) THEN default
     ELSE LET result == EvalSource(src, method, path, host, env)
          IN IF result.threw
               THEN IF result.thrown \in {"null", "undefined"}
                      THEN [threw |-> TRUE, val |-> <<>>]
                      ELSE default
             ELSE IF result.isString /\ Trim(result.val) # <<>>
               THEN [threw |-> FALSE, val |-> Trim(result.val)]
               ELSE default

(***************************************************************************)
(* Bounds of the model                                                     *)
(***************************************************************************)

\* How many times the naming function is edited in the panel.
MaxEdits == 1

\* How many times a setting is saved from the panel.
MaxSaves == 1

\* Longest method of a generateTabName call on its own.
MaxMethodLen == 28

\* Longest run of path characters of such a call.
MaxPathLen == 31

\* Replay sessions the host ever creates.
MaxSessions == 2

\* Sync cycles ever started.
MaxCycles == 2

\* Failures of the environment (a rejected host call, a storage error).
MaxFaults == 1

SessionIds == 1..MaxSessions

CycleIds == 1..MaxCycles

(***************************************************************************)
(* Host data                                                               *)
(***************************************************************************)

NameOld == <<"o","l","d">>

NameGetA == <<"G","E","T"," ","/","a">>

\* entry.raw is a base64 string: `kind` is "empty" for the empty string,
\* "invalid" for one atob rejects and "b64" for one it decodes, to `text`.
RawGetA ==
  [kind |-> "b64",
   text |-> <<"G","E","T"," ","/","a","?","x"," ","H","T","T","P","/","1",".","1",
              "\r","\n","H","o","s","t",":"," ","h","\r","\n","\r","\n">>]

RawGarbage == [kind |-> "b64", text |-> <<"g","a","r","b","a","g","e">>]

RawNotBase64 == [kind |-> "invalid", text |-> <<>>]

RawEmpty == [kind |-> "empty", text |-> <<>>]

\* atob(raw) throws
AtobThrows(raw) == raw.kind = "invalid"

\* atob(raw) when it does not throw
atob(raw) == raw.text

\* btoa('GET /api/fallback HTTP/1.1\nHost: localhost\n\n')
RawFallback ==
  [kind |-> "b64",
   text |-> <<"G","E","T"," ","/","a","p","i","/","f","a","l","l","b","a","c","k",
              " ","H","T","T","P","/","1",".","1","\n",
              "H","o","s","t",":"," ","l","o","c","a","l","h","o","s","t","\n","\n">>]

\* The payloads a detail request can bring.
Payloads == {RawGetA, RawGarbage, RawNotBase64, RawEmpty, RawFallback}

\* parseRawRequest(atob(entry.raw)), tabulated over the payloads atob decodes.
ParsedPayload ==
  [raw \in {p \in Payloads : ~AtobThrows(p)} |-> parseRawRequest(atob(raw))]

\* generateTabName(requestInfo.method, requestInfo.path) as the cycle calls it
\* (no host argument), tabulated over the naming sources and the payloads
\* that parse.
CycleTabName ==
  [src \in Sources, raw \in {p \in DOMAIN ParsedPayload : ParsedPayload[p].ok},
   env \in Envs |->
     generateTabName(src, ParsedPayload[raw].method, ParsedPayload[raw].path, <<>>,
                     env)]

\* The names a replay session may have when the host creates it.
InitialNames == {NameOld}

(***************************************************************************)
(* State                                                                   *)
(***************************************************************************)

VARIABLES
  hostSessions,      \* the host's replay sessions, in the order getSessions lists them
  created,           \* how many sessions the host has created so far
  storage,           \* what sdk.storage holds (set = FALSE: nothing stored yet)
  namingFunction,    \* namingFunction.value
  pollingInterval,   \* pollingInterval.value (ms)
  isPolling,         \* isPolling.value
  pollingIntervalId, \* pollingIntervalId (0 is null)
  timers,            \* the interval timers that are active: [id, ms]
  counts,            \* <<sessionsCount, knownCount, newCount>>
  phase,             \* "setup" before onMounted has run, then "mounted"
  autoStart,         \* the 2-second setTimeout of onMounted is pending
  cyc,               \* the invocations of checkAndRenameReplayTabs
  nCycles,           \* how many invocations have been started
  reset,             \* the onResetClick handler in flight (clearKnownSessions); history:
                     \* `begun`, the invocations started when the last one completed
  faults,            \* environment failures so far
  everKnown,         \* history: every id the persisted knownSessions has held
  settled,           \* history: the ids completed invocations listed, since the last reset
  evaluated,         \* history: the ids some invocation renamed or found correctly named
  call,              \* one call of a helper on its own: arguments and results
  edits,             \* how many times the naming function has been edited in the panel
  save               \* the saveCustomNamingFunction / savePollingInterval call in flight

vars == <<hostSessions, created, storage, namingFunction, pollingInterval,
          isPolling, pollingIntervalId, timers, counts, phase, autoStart,
          cyc, nCycles, reset, faults, everKnown, settled, evaluated, call,
          edits, save>>

hostVars == <<hostSessions, created>>

uiVars == <<namingFunction, pollingInterval, phase, autoStart>>

timerVars == <<isPolling, pollingIntervalId, timers>>

histVars == <<everKnown, settled, evaluated>>

(***************************************************************************)
(* Known-Set Store                                                         *)
(***************************************************************************)

\* The object getStorage returns when nothing usable is stored or the read throws.
DefaultStorage ==
  [knownSessions |-> {}, customNamingFunction |-> "", pollingInterval |-> 3000]

\* Variant: the stored known sessions are not taken over.
getStorage_NoKnown(stored) ==
  IF stored.set
    THEN [knownSessions |-> {},
          customNamingFunction |-> stored.customNamingFunction,
          pollingInterval |-> stored.pollingInterval]
    ELSE [knownSessions |-> {}, customNamingFunction |-> "", pollingInterval |-> 3000]

\* Variant: the stored knownSessions is taken over without the Array.isArray test.
getStorage_Unchecked(stored) ==
  IF stored.set
    THEN [knownSessions |-> stored.knownSessions,
          customNamingFunction |-> stored.customNamingFunction,
          pollingInterval |-> stored.pollingInterval]
    ELSE [knownSessions |-> {}, customNamingFunction |-> "", pollingInterval |-> 3000]

\* getStorage on what sdk.storage.get() resolved to.  `set` says that a plain
\* object is stored, `knownIsArray` that its knownSessions is an array.
getStorage(stored) ==
  IF stored.set
    THEN [knownSessions |-> IF stored.knownIsArray THEN stored.knownSessions ELSE {},
          customNamingFunction |-> stored.customNamingFunction,
          pollingInterval |-> stored.pollingInterval]
    ELSE DefaultStorage

\* What sdk.storage holds after sdk.storage.set(obj).
Stored(obj) ==
  [set |-> TRUE, knownIsArray |-> TRUE, knownSessions |-> obj.knownSessions,
   customNamingFunction |-> obj.customNamingFunction,
   pollingInterval |-> obj.pollingInterval]

CanFault == faults < MaxFaults

\* A storage read: getStorage of the store, or the defaults when the read throws.
\* `failed` chooses the outcome.
ReadStorage(failed) == IF failed THEN DefaultStorage ELSE getStorage(storage)

(***************************************************************************)
(* Sync cycle: records and helpers                                         *)
(***************************************************************************)

UnusedCycle ==
  [pc |-> "unused", sessions |-> <<>>, known |-> {}, newSessions |-> <<>>,
   idx |-> 0, renamedCount |-> 0, stg |-> DefaultStorage, newName |-> <<>>,
   fetchCalls |-> <<>>, renameCalls |-> <<>>, log |-> <<>>, saved |-> "none",
   settled |-> {}]

InFlight(c) == c.pc \notin {"unused", "done", "aborted"}

Ids(sessions) == {sessions[i].id : i \in 1..Len(sessions)}

\* The ids an invocation has renamed or found correctly named so far.
EvaluatedIds(c) ==
  {c.log[i].id : i \in {j \in 1..Len(c.log) :
                          c.log[j].out = "alreadyCorrect" \/ c.log[j].rename = "ok"}}

\* Variant: no session is filtered out.
NewSessionsOf_Unfiltered(sessions, known) == sessions

\* Variant: the new sessions come out last listed first.
NewSessionsOf_Reversed(sessions, known) ==
  LET kept == SelectSeq(sessions, LAMBDA s : s.id \notin known)
  IN [i \in 1..Len(kept) |-> kept[Len(kept) + 1 - i]]

\* sessions.filter(session => !knownSessions.has(session.id))
NewSessionsOf(sessions, known) == SelectSeq(sessions, LAMBDA s : s.id \notin known)

\* Variant: the known set is persisted as it was loaded.
CurrentSessionIds_LoadedOnly(c) == c.known

\* Variant: only the ids of the new sessions are persisted.
CurrentSessionIds_NewOnly(c) == Ids(c.newSessions)

\* currentSessionIds, the set both saveKnownSessions calls persist
CurrentSessionIds(c) == Ids(c.sessions)

\* What getSessions resolves to: {id, name} of each host session, in order.
Listing == [i \in 1..Len(hostSessions) |->
              [id |-> hostSessions[i].id, name |-> hostSessions[i].name]]

OnHost(id) == \E i \in 1..Len(hostSessions) : hostSessions[i].id = id

HostSession(id) == hostSessions[CHOOSE i \in 1..Len(hostSessions) : hostSessions[i].id = id]

NoEntry == [present |-> FALSE, name |-> <<>>, raw |-> RawEmpty]

\* `Session ${sessionId}`
SessionLabel(id) == <<"S","e","s","s","i","o","n"," ">> \o <<ToString(id)>>

\* The object getSessionDetails returns when the GraphQL request throws or
\* the response is not OK.
FallbackEntry(id) == [present |-> TRUE, name |-> SessionLabel(id), raw |-> RawFallback]

\* How a detail request can go.  "ok": the response is OK and carries the
\* active entry with a well-formed request and the session's name.  The
\* response may also be OK and carry no usable entry ("noEntry": activeEntry
\* is null, or its raw is empty), an entry without the session's name
\* ("noName"), one whose request has a single token ("garbage"), or one whose
\* raw is not base64 ("notBase64").  "noToken": no access token is stored, no
\* request is made.  "failed": fetch throws or the response is not OK.
FetchOutcomes == {"ok", "noEntry", "noName", "garbage", "notBase64", "noToken", "failed"}

\* data.data?.replaySession?.activeEntry of an OK response
ActiveEntry(id, outcome) ==
  IF ~OnHost(id) \/ outcome = "noEntry" THEN NoEntry
  ELSE [present |-> TRUE,
        name |-> IF outcome = "noName" THEN <<>> ELSE HostSession(id).name,
        raw |-> CASE outcome = "garbage" -> RawGarbage
                  [] outcome = "notBase64" -> RawNotBase64
                  [] OTHER -> RawGetA]

\* What a detail request came to: an entry of the response ("ok"), the
\* fallback entry ("failed"), or nothing usable ("none").
FetchResult(outcome) ==
  CASE outcome \in {"noEntry", "noToken"} -> "none"
    [] outcome = "failed" -> "failed"
    [] OTHER -> "ok"

\* getSessionDetails(id): `outcome` is how the request went.
getSessionDetails(id, outcome) ==
  CASE outcome = "noToken" -> NoEntry
    [] outcome = "failed" -> FallbackEntry(id)
    [] OTHER -> ActiveEntry(id, outcome)

\* Variant: the rename call is made whatever the names are.
NeedsRename_Always(currentName, newName) == TRUE

\* currentName === newName decides against the rename call
NeedsRename(currentName, newName) == currentName # newName

\* Variant: the session is renamed to the name it has.
RenameArgs_CurrentName(session, currentName, newName) ==
  [id |-> session.id, name |-> currentName]

\* The arguments of sdkInstance.replay.renameSession
RenameArgs(session, currentName, newName) == [id |-> session.id, name |-> newName]

\* An invocation that has ended keeps nothing: its locals are gone.
Ended(pc) == [UnusedCycle EXCEPT !.pc = pc]

\* The next iteration of `for (const session of newSessions)`, or the code
\* after the loop.
NextSession(c) ==
  IF c.idx < Len(c.newSessions)
    THEN [c EXCEPT !.pc = "fetch", !.idx = c.idx + 1,
                   !.fetchCalls = Append(@, c.newSessions[c.idx + 1].id)]
    ELSE [c EXCEPT !.pc = "saveRead"]

\* Variant: an exception in one session ends the invocation.
SessionCatch_Abort(c) == Ended("aborted")

\* The per-session catch: log and go on with the next session.
SessionCatch(c) == NextSession(c)

\* Variant: with no session listed the invocation goes on to the final persist.
NoSessions_Persists(c) == [c EXCEPT !.pc = "saveRead"]

\* `if (!sessions || sessions.length === 0) { ...; return; }`
NoSessions(c) == Ended("done")

\* Variant: after a failed listing the invocation goes on to the final persist.
CycleCatch_Proceed(c) == [c EXCEPT !.pc = "saveRead"]

\* The top-level catch: log, and the invocation ends.
CycleCatch(c) == Ended("aborted")

\* One iteration of the loop from the resolved entry to the first await
\* after it (or to the next iteration).
ProcessEntry(c, fetch, entry, env) ==
  LET session == c.newSessions[c.idx]
      Note(out, cur, cand, ren) ==
        Append(c.log, [id |-> session.id, fetch |-> FetchResult(fetch), out |-> out,
                       raw |-> entry.raw, src |-> namingFunction,
                       cur |-> cur, cand |-> cand, rename |-> ren])
  IN IF ~entry.present \/ entry.raw.kind = "empty"
       THEN NextSession([c EXCEPT !.log = Note("noDetails", <<>>, <<>>, "none")])
     ELSE
       LET currentName == IF entry.name # <<>> THEN entry.name ELSE session.name
       IN IF AtobThrows(entry.raw)
            THEN SessionCatch([c EXCEPT !.log = Note("threw", currentName, <<>>, "none")])
          ELSE
            LET requestInfo == ParsedPayload[entry.raw]
            IN IF ~requestInfo.ok
                 THEN NextSession(
                        [c EXCEPT !.log = Note("unparseable", currentName, <<>>, "none")])
               ELSE
                 LET newName == CycleTabName[namingFunction, entry.raw, env]
                 IN IF ~NeedsRename(currentName, newName)
                      THEN NextSession(
                             [c EXCEPT !.log = Note("alreadyCorrect", currentName,
                                                    newName, "none")])
                      ELSE [c EXCEPT
                              !.pc = "rename",
                              !.newName = newName,
                              !.renameCalls =
                                 Append(@, RenameArgs(session, currentName, newName)),
                              !.log = Note("rename", currentName, newName, "pending")]

(***************************************************************************)
(* The helpers called on their own: arguments a call can have              *)
(***************************************************************************)

Rep(c, n) == [i \in 1..n |-> c]

NoCall ==
  [fn |-> "none", src |-> "", method |-> <<>>, path |-> <<>>, host |-> <<>>,
   env |-> <<>>, raw |-> <<>>, state |-> "none", name |-> <<>>, again |-> <<>>,
   part000 |-> [threw |-> FALSE, val |-> <<>>], parsed |-> NoRequest]

Methods == {<<"G", "E", "T">>} \cup {Rep("M", n) : n \in 1..MaxMethodLen}

Paths ==
  {<<"/">> \o Rep("a", n) : n \in 0..MaxPathLen} \cup
  {<<"/", "a", "/", "b", "?", "x", "=", "1", "#", "f", "r", "a", "g">>,
   <<"/", "a", "#", "f", "?", "q">>,
   <<"?", "x">>,
   <<"/", "a", "%", "2", "0", "~", "!", "b", ":", "@", "c">>,
   <<"/", "A", "-", "Z", "_", "0", ".", "9">>,
   <<"/">> \o Rep("a", MaxPathLen - 3) \o <<"?">> \o Rep("q", 5),
   <<"/", "~">> \o Rep("b", MaxPathLen - 2) \o <<"!", "#">>}

Hosts == {<<>>, <<"h">>}

\* The calls of generateTabName: two calls are made with the same arguments
\* and naming source, the globals giving env[1] to the first and env[2] to
\* the second.
GenerateCalls ==
  {[NoCall EXCEPT !.fn = "generateTabName", !.state = "pending", !.src = src,
                  !.method = method, !.path = path, !.host = host, !.env = env] :
     src \in Sources, method \in Methods, path \in Paths, host \in Hosts,
     env \in Envs \X Envs}

\* The raw requests of the parseRawRequest calls: leading blank lines, a
\* request line, a line break, a header line, and what follows.
LeadingLines == {<<>>, <<"\n">>, <<" ", "\r", "\n", "\t">>}

RequestLines ==
  {<<"G", " ", "/">>,
   <<"G", "\t", " ", "/", "a", " ", "H">>,
   <<" ", "P", " ", "/", " ">>,
   <<"G">>,
   <<"G", " ">>,
   <<>>,
   <<"h", "o", "s", "t", ":", "x", " ", "/">>}

LineBreaks == {<<"\n">>, <<"\r", "\n">>, <<"\r">>}

HeaderLines ==
  {<<>>,
   <<"H", "o", "s", "t", ":", " ", "h">>,
   <<"H", "O", "S", "T", ":", "h">>,
   <<" ", "h", "O", "s", "T", ":", " ", " ", "h", " ", "i", "\t">>,
   <<"H", "o", "s", "t", " ", ":", " ", "h">>,
   <<"X", "-", "H", "o", "s", "t", ":", " ", "h">>,
   <<"h", "o", "s", "t", ":">>}

FollowingLines ==
  {<<>>,
   <<"\n", "\n", "h", "o", "s", "t", ":", " ", "b">>,
   <<"\r", "\n", "H", "o", "s", "t", ":", " ", "k", "\r", "\n">>}

ParseRaws ==
  {pre \o req \o br \o header \o rest :
     pre \in LeadingLines, req \in RequestLines, br \in LineBreaks,
     header \in HeaderLines, rest \in FollowingLines}
  \cup {<<>>, <<" ">>, <<"G", " ", "/">>}

ParseCalls ==
  {[NoCall EXCEPT !.fn = "parseRawRequest", !.state = "pending", !.raw = raw] :
     raw \in ParseRaws}

(***************************************************************************)
(* Initial state: the component has been set up, onMounted has not run.    *)
(***************************************************************************)

\* What the store holds when the plugin is first loaded: nothing, or an
\* object without known sessions.
FreshStores ==
  {[set |-> b, knownIsArray |-> TRUE, knownSessions |-> {},
    customNamingFunction |-> "", pollingInterval |-> 3000] : b \in BOOLEAN}

\* What the store can hold when the plugin is loaded again, or after something
\* else wrote to it: nothing or no plain object (set = FALSE), the known
\* sessions of an earlier run, or an object whose knownSessions is not an
\* array (the ids are then what a reader that did not test it would take).
StoredShapes ==
  {[set |-> b, knownIsArray |-> a, knownSessions |-> ids,
    customNamingFunction |-> "", pollingInterval |-> 3000] :
     b \in BOOLEAN, a \in BOOLEAN, ids \in {{}, {1}}}

\* No saveCustomNamingFunction or savePollingInterval call is in flight; `n`
\* counts the calls made so far.
NoSave ==
  [pc |-> "idle", field |-> "none", fn |-> "", ms |-> 0, stg |-> DefaultStorage, n |-> 0]

\* History only: no onResetClick handler has completed yet.
NoReset == 0 - 1

ComponentSetup(stores) ==
  /\ hostSessions = <<>>
  /\ created = 0
  /\ storage \in stores
  /\ namingFunction = ""
  /\ pollingInterval = 3000
  /\ isPolling = FALSE
  /\ pollingIntervalId = 0
  /\ timers = {}
  /\ counts = <<0, 0, 0>>
  /\ phase = "setup"
  /\ autoStart = FALSE
  /\ cyc = [k \in CycleIds |-> UnusedCycle]
  /\ nCycles = 0
  /\ reset = [pc |-> "idle", stg |-> DefaultStorage, begun |-> NoReset]
  /\ faults = 0
  /\ everKnown = getStorage(storage).knownSessions
  /\ settled = {}
  /\ evaluated = {}
  /\ edits = 0
  /\ save = NoSave

Setup == ComponentSetup(FreshStores)

Init == Setup /\ call = NoCall

(***************************************************************************)
(* The host: sessions appear and disappear                                 *)
(***************************************************************************)

\* The user opens a replay session; the host lists it last.
HostCreate ==
  /\ created < MaxSessions
  /\ \E name \in InitialNames :
       hostSessions' = Append(hostSessions, [id |-> created + 1, name |-> name])
  /\ created' = created + 1
  /\ UNCHANGED <<call, edits, save, storage, uiVars, timerVars, counts, cyc, nCycles, reset, faults,
                 histVars>>

(***************************************************************************)
(* Polling                                                                 *)
(***************************************************************************)

\* Variant: a call made while an invocation is in flight does nothing.
BeginCycle_Guarded ==
  /\ nCycles < MaxCycles
  /\ \A k \in CycleIds : ~InFlight(cyc[k])
  /\ nCycles' = nCycles + 1
  /\ cyc' = [cyc EXCEPT ![nCycles + 1] =
                [UnusedCycle EXCEPT !.pc = "list", !.settled = settled]]

\* checkAndRenameReplayTabs() is called: it runs to its first await,
\* sdkInstance.replay.getSessions().
BeginCycle ==
  /\ nCycles < MaxCycles
  /\ nCycles' = nCycles + 1
  /\ cyc' = [cyc EXCEPT ![nCycles + 1] =
                [UnusedCycle EXCEPT !.pc = "list", !.settled = settled]]

TimerIds(ts) == {t.id : t \in ts}

\* Variant: clearInterval leaves the timer active.
ClearInterval_Keeps(ts, id) == ts

\* clearInterval(id)
ClearInterval(ts, id) == {t \in ts : t.id # id}

\* The id setInterval returns: one no active timer has.
FreshTimerId(ts) == CHOOSE n \in 1..(Cardinality(ts) + 1) :
                      n \notin TimerIds(ts) /\ \A m \in 1..(n - 1) : m \in TimerIds(ts)

\* Variant: startPolling leaves the first invocation to the timer.
startPolling_NoImmediate ==
  /\ isPolling' = TRUE
  /\ pollingIntervalId' = 1
  /\ timers' = {[id |-> 1, ms |-> pollingInterval]}
  /\ UNCHANGED <<cyc, nCycles>>

\* Variant: startPolling creates its timer without clearing the one there is.
startPolling_NoClear ==
  /\ isPolling' = TRUE
  /\ BeginCycle
  /\ pollingIntervalId' = FreshTimerId(timers)
  /\ timers' = timers \cup {[id |-> FreshTimerId(timers), ms |-> pollingInterval]}

\* startPolling()
startPolling ==
  LET cleared == IF pollingIntervalId # 0 THEN ClearInterval(timers, pollingIntervalId)
                                          ELSE timers
      id == FreshTimerId(cleared)
  IN /\ isPolling' = TRUE
     /\ BeginCycle
     /\ pollingIntervalId' = id
     /\ timers' = cleared \cup {[id |-> id, ms |-> pollingInterval]}

\* Variant: stopping the loop also ends the invocations in flight.
stopPolling_Cancels ==
  /\ timers' = IF pollingIntervalId # 0 THEN ClearInterval(timers, pollingIntervalId)
                                        ELSE timers
  /\ pollingIntervalId' = 0
  /\ isPolling' = FALSE
  /\ cyc' = [k \in CycleIds |-> IF InFlight(cyc[k]) THEN Ended("aborted") ELSE cyc[k]]
  /\ UNCHANGED nCycles

\* stopPolling()
stopPolling ==
  /\ timers' = IF pollingIntervalId # 0 THEN ClearInterval(timers, pollingIntervalId)
                                        ELSE timers
  /\ pollingIntervalId' = 0
  /\ isPolling' = FALSE
  /\ UNCHANGED <<cyc, nCycles>>

\* onMounted: the stored naming function, polling interval and known
\* sessions are read, and the automatic start is scheduled.  Each of the three
\* reads may fail.
OnMounted ==
  /\ phase = "setup"
  /\ \E f1, f2, f3 \in BOOLEAN :
       LET n == (IF f1 THEN 1 ELSE 0) + (IF f2 THEN 1 ELSE 0) + (IF f3 THEN 1 ELSE 0)
           source == ReadStorage(f1).customNamingFunction
       IN /\ faults + n <= MaxFaults
          /\ faults' = faults + n
          /\ namingFunction' = IF source # "" THEN source ELSE DefaultSource
          /\ pollingInterval' = ReadStorage(f2).pollingInterval
          /\ counts' = <<0, Cardinality(ReadStorage(f3).knownSessions), 0>>
  /\ phase' = "mounted"
  /\ autoStart' = TRUE
  /\ UNCHANGED <<call, edits, save, hostVars, storage, timerVars, cyc, nCycles, reset, histVars>>

\* The setTimeout(..., 2000) callback of onMounted.
AutoStart ==
  /\ autoStart
  /\ autoStart' = FALSE
  /\ startPolling
  /\ UNCHANGED <<call, edits, save, hostVars, storage, namingFunction, pollingInterval,
                 phase, counts, reset, faults, histVars>>

\* onStartClick
OnStartClick ==
  /\ phase = "mounted"
  /\ IF ~isPolling THEN startPolling ELSE stopPolling
  /\ UNCHANGED <<call, edits, save, hostVars, storage, uiVars, counts, reset, faults, histVars>>

\* onUnmounted: the timer is cleared; the flag, the timer id and a pending
\* automatic start are left as they are.
OnUnmounted ==
  /\ phase = "mounted"
  /\ phase' = "unmounted"
  /\ timers' = IF pollingIntervalId # 0 THEN ClearInterval(timers, pollingIntervalId)
                                        ELSE timers
  /\ UNCHANGED <<call, edits, save, hostVars, storage, namingFunction, pollingInterval,
                 autoStart, isPolling, pollingIntervalId, counts, cyc, nCycles, reset,
                 faults, histVars>>

\* onTestClick
OnTestClick ==
  /\ phase = "mounted"
  /\ BeginCycle
  /\ UNCHANGED <<call, edits, save, hostVars, storage, uiVars, timerVars, counts, reset, faults,
                 histVars>>

\* The setInterval callback.
TimerTick ==
  /\ timers # {}
  /\ BeginCycle
  /\ UNCHANGED <<call, edits, save, hostVars, storage, uiVars, timerVars, counts, reset, faults,
                 histVars>>

(***************************************************************************)
(* Reset Sessions: onResetClick, through clearKnownSessions                *)
(***************************************************************************)

\* History only: a reset starts the record of settled ids afresh.
ForgetSettled == [k \in CycleIds |-> [cyc[k] EXCEPT !.settled = {}]]

OnResetClick ==
  /\ phase = "mounted"
  /\ reset.pc = "idle"
  /\ reset' = [reset EXCEPT !.pc = "read"]
  /\ settled' = {}
  /\ cyc' = ForgetSettled
  /\ UNCHANGED <<call, edits, save, hostVars, storage, uiVars, timerVars, counts, nCycles, faults,
                 everKnown, evaluated>>

\* clearKnownSessions: `await getStorage()` resolves.
ResetRead ==
  /\ reset.pc = "read"
  /\ \E failed \in BOOLEAN :
       /\ failed => CanFault
       /\ faults' = faults + (IF failed THEN 1 ELSE 0)
       /\ reset' = [reset EXCEPT !.pc = "write", !.stg = ReadStorage(failed)]
  /\ UNCHANGED <<call, edits, save, hostVars, storage, uiVars, timerVars, counts, cyc, nCycles,
                 histVars>>

\* clearKnownSessions: `await saveStorage(storage)` resolves, then the
\* handler sets the counts to zero.
ResetWrite ==
  /\ reset.pc = "write"
  /\ \/ /\ storage' = Stored([reset.stg EXCEPT !.knownSessions = {}])
        /\ UNCHANGED faults
     \/ /\ CanFault
        /\ faults' = faults + 1
        /\ UNCHANGED storage
  /\ reset' = [pc |-> "idle", stg |-> DefaultStorage, begun |-> nCycles]
  /\ counts' = <<0, 0, 0>>
  /\ settled' = {}
  /\ cyc' = ForgetSettled
  /\ UNCHANGED <<call, edits, save, hostVars, uiVars, timerVars, nCycles, everKnown, evaluated>>

(***************************************************************************)
(* checkAndRenameReplayTabs, one action per await                          *)
(***************************************************************************)

\* `await sdkInstance.replay.getSessions()` resolves or rejects.
ListResolve(k) ==
  /\ cyc[k].pc = "list"
  /\ \/ /\ CanFault
        /\ faults' = faults + 1
        /\ cyc' = [cyc EXCEPT ![k] = CycleCatch(@)]
        /\ UNCHANGED counts
     \/ /\ UNCHANGED faults
        /\ IF Listing = <<>>
             THEN /\ counts' = <<0, 0, 0>>
                  /\ cyc' = [cyc EXCEPT ![k] = NoSessions(@)]
             ELSE /\ cyc' = [cyc EXCEPT ![k].pc = "loadKnown", ![k].sessions = Listing]
                  /\ UNCHANGED counts
  /\ UNCHANGED <<call, edits, save, hostVars, storage, uiVars, timerVars, nCycles, reset, histVars>>

\* `await getKnownSessions()` resolves: the new sessions are worked out, the
\* counts shown, and the loop entered (or, with nothing new, the save begun).
LoadKnown(k) ==
  /\ cyc[k].pc = "loadKnown"
  /\ \E failed \in BOOLEAN :
       /\ failed => CanFault
       /\ faults' = faults + (IF failed THEN 1 ELSE 0)
       /\ LET c == cyc[k]
              knownSessions == ReadStorage(failed).knownSessions
              newSessions == NewSessionsOf(c.sessions, knownSessions)
              loaded == [c EXCEPT !.known = knownSessions, !.newSessions = newSessions]
          IN /\ counts' = <<Len(c.sessions), Cardinality(knownSessions),
                            Len(newSessions)>>
             /\ cyc' = [cyc EXCEPT ![k] = NextSession(loaded)]
  /\ UNCHANGED <<call, edits, save, hostVars, storage, uiVars, timerVars, nCycles, reset, histVars>>

\* `await getSessionDetails(session.id)` resolves; the iteration runs on to
\* the rename call or to the next iteration.
FetchResolve(k) ==
  /\ cyc[k].pc = "fetch"
  /\ \E outcome \in FetchOutcomes, env \in Envs :
       /\ outcome # "ok" => CanFault
       /\ faults' = faults + (IF outcome # "ok" THEN 1 ELSE 0)
       /\ LET c == cyc[k]
              id == c.newSessions[c.idx].id
              after == ProcessEntry(c, outcome, getSessionDetails(id, outcome), env)
          IN /\ cyc' = [cyc EXCEPT ![k] = after]
             /\ evaluated' = evaluated \cup EvaluatedIds(after)
  /\ UNCHANGED <<call, edits, save, hostVars, storage, uiVars, timerVars, counts, nCycles, reset,
                 everKnown, settled>>

SetLast(log, ren) == [log EXCEPT ![Len(log)].rename = ren]

\* The host renames the session.
Renamed(id, name) ==
  [i \in 1..Len(hostSessions) |->
     IF hostSessions[i].id = id THEN [hostSessions[i] EXCEPT !.name = name]
                                ELSE hostSessions[i]]

\* `await sdkInstance.replay.renameSession(id, newName)` resolves or rejects
\* (it rejects for a session the host no longer has).
RenameResolve(k) ==
  /\ cyc[k].pc = "rename"
  /\ LET c == cyc[k]
         id == c.newSessions[c.idx].id
     IN \/ /\ OnHost(id)
           /\ hostSessions' = Renamed(id, c.newName)
           /\ cyc' = [cyc EXCEPT ![k] =
                        [c EXCEPT !.pc = "delay", !.renamedCount = @ + 1,
                                  !.log = SetLast(@, "ok")]]
           /\ evaluated' = evaluated \cup {id}
           /\ UNCHANGED faults
        \/ /\ OnHost(id) => CanFault
           /\ faults' = faults + (IF OnHost(id) THEN 1 ELSE 0)
           /\ cyc' = [cyc EXCEPT ![k] =
                        SessionCatch([c EXCEPT !.log = SetLast(@, "failed")])]
           /\ UNCHANGED <<hostSessions, evaluated>>
  /\ UNCHANGED <<call, edits, save, created, storage, uiVars, timerVars, counts, nCycles, reset,
                 everKnown, settled>>

\* The 100 ms setTimeout after a rename fires.
DelayResolve(k) ==
  /\ cyc[k].pc = "delay"
  /\ cyc' = [cyc EXCEPT ![k] = NextSession(@)]
  /\ UNCHANGED <<call, edits, save, hostVars, storage, uiVars, timerVars, counts, nCycles, reset,
                 faults, histVars>>

\* saveKnownSessions: `await getStorage()` resolves.
SaveRead(k) ==
  /\ cyc[k].pc = "saveRead"
  /\ \E failed \in BOOLEAN :
       /\ failed => CanFault
       /\ faults' = faults + (IF failed THEN 1 ELSE 0)
       /\ cyc' = [cyc EXCEPT ![k].pc = "saveWrite", ![k].stg = ReadStorage(failed)]
  /\ UNCHANGED <<call, edits, save, hostVars, storage, uiVars, timerVars, counts, nCycles, reset,
                 histVars>>

\* Variant: the known sessions are read once more after every save.
AfterSave_AlwaysReads(c, saved) ==
  [c EXCEPT !.pc = "finalRead", !.saved = saved, !.stg = DefaultStorage]

\* After saveKnownSessions: return when nothing was new, else read the
\* known sessions once more for the counts.
AfterSave(c, saved) ==
  IF c.newSessions = <<>> THEN Ended("done")
  ELSE [c EXCEPT !.pc = "finalRead", !.saved = saved, !.stg = DefaultStorage]

\* saveKnownSessions: `await saveStorage(storage)` resolves; a write that
\* throws is dropped.
SaveWrite(k) ==
  /\ cyc[k].pc = "saveWrite"
  /\ LET c == cyc[k]
     IN /\ \/ /\ storage' = Stored([c.stg EXCEPT !.knownSessions = CurrentSessionIds(c)])
              /\ everKnown' = everKnown \cup storage'.knownSessions
              /\ cyc' = [cyc EXCEPT ![k] = AfterSave(c, "ok")]
              /\ UNCHANGED faults
           \/ /\ CanFault
              /\ faults' = faults + 1
              /\ cyc' = [cyc EXCEPT ![k] = AfterSave(c, "dropped")]
              /\ UNCHANGED <<storage, everKnown>>
        /\ settled' = IF c.newSessions = <<>> THEN settled \cup Ids(c.sessions)
                                              ELSE settled
  /\ UNCHANGED <<call, edits, save, hostVars, uiVars, timerVars, counts, nCycles, reset, evaluated>>

\* `const finalKnown = await getKnownSessions()` resolves, the counts are shown.
FinalRead(k) ==
  /\ cyc[k].pc = "finalRead"
  /\ \E failed \in BOOLEAN :
       /\ failed => CanFault
       /\ faults' = faults + (IF failed THEN 1 ELSE 0)
       /\ counts' = <<Len(cyc[k].sessions),
                      Cardinality(ReadStorage(failed).knownSessions), 0>>
  /\ cyc' = [cyc EXCEPT ![k] = Ended("done")]
  /\ settled' = settled \cup Ids(cyc[k].sessions)
  /\ UNCHANGED <<call, edits, save, hostVars, storage, uiVars, timerVars, nCycles, reset, everKnown,
                 evaluated>>

CycleStep(k) ==
  \/ ListResolve(k)
  \/ LoadKnown(k)
  \/ FetchResolve(k)
  \/ RenameResolve(k)
  \/ DelayResolve(k)
  \/ SaveRead(k)
  \/ SaveWrite(k)
  \/ FinalRead(k)

(***************************************************************************)
(* The panel: the naming function is edited                                *)
(***************************************************************************)

\* What is typed into the textarea of the naming function.
InputSources == {"throw", "host", "padded"}

\* onInput of the textarea: namingFunction.value becomes what was typed.
OnNamingInput ==
  /\ phase = "mounted"
  /\ edits < MaxEdits
  /\ edits' = edits + 1
  /\ \E src \in InputSources : namingFunction' = src
  /\ UNCHANGED <<call, save, hostVars, storage, pollingInterval, phase, autoStart, timerVars,
                 counts, cyc, nCycles, reset, faults, histVars>>

(***************************************************************************)
(* The panel: the naming function and the polling interval are saved       *)
(***************************************************************************)

\* The values the range input of the polling interval is moved to.
Intervals == {3000, 5000}

\* saveCustomNamingFunction(functionCode) is called.
SaveFunctionCalled(functionCode) ==
  /\ save.pc = "idle"
  /\ save.n < MaxSaves
  /\ save' = [NoSave EXCEPT !.pc = "read", !.field = "customNamingFunction",
                            !.fn = functionCode, !.n = save.n + 1]

\* onSaveFunctionClick
OnSaveFunctionClick ==
  /\ phase = "mounted"
  /\ SaveFunctionCalled(namingFunction)
  /\ UNCHANGED <<call, edits, hostVars, storage, uiVars, timerVars, counts, cyc, nCycles,
                 reset, faults, histVars>>

\* onResetFunctionClick: the default source is shown and '' is saved.
OnResetFunctionClick ==
  /\ phase = "mounted"
  /\ namingFunction' = DefaultSource
  /\ SaveFunctionCalled("")
  /\ UNCHANGED <<call, edits, hostVars, storage, pollingInterval, phase, autoStart,
                 timerVars, counts, cyc, nCycles, reset, faults, histVars>>

\* Variant: the loop is started again over the timer that is running.
RestartPolling_KeepsTimer(ms) ==
  LET id == FreshTimerId(timers)
  IN /\ isPolling' = TRUE
     /\ BeginCycle
     /\ pollingIntervalId' = id
     /\ timers' = timers \cup {[id |-> id, ms |-> ms]}

\* `stopPolling(); startPolling();` with pollingInterval.value = ms: the
\* timer is cleared, an invocation is started and a timer of ms installed.
RestartPolling(ms) ==
  LET cleared == IF pollingIntervalId # 0 THEN ClearInterval(timers, pollingIntervalId)
                                          ELSE timers
      id == FreshTimerId(cleared)
  IN /\ isPolling' = TRUE
     /\ BeginCycle
     /\ pollingIntervalId' = id
     /\ timers' = cleared \cup {[id |-> id, ms |-> ms]}

\* onPollingIntervalChange: the value is shown, savePollingInterval is
\* called (and not awaited), and a running loop is restarted.
OnPollingIntervalChange ==
  /\ phase = "mounted"
  /\ save.pc = "idle"
  /\ save.n < MaxSaves
  /\ \E value \in Intervals \ {pollingInterval} :
       /\ pollingInterval' = value
       /\ save' = [NoSave EXCEPT !.pc = "read", !.field = "pollingInterval",
                                 !.ms = value, !.n = save.n + 1]
       /\ IF isPolling THEN RestartPolling(value)
                       ELSE UNCHANGED <<timerVars, cyc, nCycles>>
  /\ UNCHANGED <<call, edits, hostVars, storage, namingFunction, phase, autoStart, counts,
                 reset, faults, histVars>>

\* The object as saveCustomNamingFunction / savePollingInterval changes it.
WithSetting(obj, s) ==
  IF s.field = "customNamingFunction" THEN [obj EXCEPT !.customNamingFunction = s.fn]
                                      ELSE [obj EXCEPT !.pollingInterval = s.ms]

\* saveCustomNamingFunction / savePollingInterval: `await getStorage()`
\* resolves and the field is assigned.
SettingRead ==
  /\ save.pc = "read"
  /\ \E failed \in BOOLEAN :
       /\ failed => CanFault
       /\ faults' = faults + (IF failed THEN 1 ELSE 0)
       /\ save' = [save EXCEPT !.pc = "write", !.stg = WithSetting(ReadStorage(failed), save)]
  /\ UNCHANGED <<call, edits, hostVars, storage, uiVars, timerVars, counts, cyc, nCycles,
                 reset, histVars>>

\* saveCustomNamingFunction / savePollingInterval: `await saveStorage(storage)`
\* resolves; a write that throws is dropped.
SettingWrite ==
  /\ save.pc = "write"
  /\ \/ /\ storage' = Stored(save.stg)
        /\ everKnown' = everKnown \cup storage'.knownSessions
        /\ UNCHANGED faults
     \/ /\ CanFault
        /\ faults' = faults + 1
        /\ UNCHANGED <<storage, everKnown>>
  /\ save' = [NoSave EXCEPT !.n = save.n]
  /\ UNCHANGED <<call, edits, hostVars, uiVars, timerVars, counts, cyc, nCycles, reset,
                 settled, evaluated>>

(***************************************************************************)
(* The helpers called on their own                                         *)
(***************************************************************************)

componentVars ==
  <<hostSessions, created, storage, namingFunction, pollingInterval, isPolling,
    pollingIntervalId, timers, counts, phase, autoStart, cyc, nCycles, reset,
    faults, everKnown, settled, evaluated, edits, save>>

\* generateTabName is called twice with the arguments of the call, and its
\* localStorage variant once.
CallGenerateTabName ==
  /\ call.fn = "generateTabName"
  /\ call.state = "pending"
  /\ call' =
       [call EXCEPT
          !.state = "returned",
          !.name = generateTabName(call.src, call.method, call.path, call.host,
                                   call.env[1]),
          !.again = generateTabName(call.src, call.method, call.path, call.host,
                                    call.env[2]),
          !.part000 = generateTabNamePart000(call.src, call.method, call.path,
                                             call.host, call.env[1])]
  /\ UNCHANGED componentVars

\* parseRawRequest is called on the raw request of the call.
CallParseRawRequest ==
  /\ call.fn = "parseRawRequest"
  /\ call.state = "pending"
  /\ call' = [call EXCEPT !.state = "returned", !.parsed = parseRawRequest(call.raw)]
  /\ UNCHANGED componentVars

(***************************************************************************)
(* Specification                                                           *)
(***************************************************************************)

\* The host, the mounted panel and the polling loop with its invocations.
Loop ==
  \/ HostCreate
  \/ OnMounted
  \/ AutoStart
  \/ OnTestClick
  \/ TimerTick
  \/ \E k \in CycleIds : CycleStep(k)

\* The loop, started and stopped from the panel.
Next ==
  \/ Loop
  \/ OnStartClick

Spec == Init /\ [][Next]_vars

\* The loop, with the known set reset from the panel.
NextReset ==
  \/ Loop
  \/ OnResetClick
  \/ ResetRead
  \/ ResetWrite

SpecReset == Init /\ [][NextReset]_vars

\* The loop, with the naming function edited in the panel.
NextNaming ==
  \/ Loop
  \/ OnNamingInput

SpecNaming == Init /\ [][NextNaming]_vars

\* The loop, started and stopped from the panel, and the panel closed.
NextLifecycle ==
  \/ Next
  \/ OnUnmounted

SpecLifecycle == Init /\ [][NextLifecycle]_vars

\* The loop, the plugin being loaded with whatever the store holds.
InitStore == ComponentSetup(StoredShapes) /\ call = NoCall

SpecStore == InitStore /\ [][Next]_vars

\* The loop, with the settings saved from the panel.
NextSettings ==
  \/ Loop
  \/ OnSaveFunctionClick
  \/ OnResetFunctionClick
  \/ OnPollingIntervalChange
  \/ SettingRead
  \/ SettingWrite

SpecSettings == Init /\ [][NextSettings]_vars

\* The helpers on their own: one call with arguments from the bounded sets.
InitPure ==
  /\ Setup
  /\ ~storage.set
  /\ call \in GenerateCalls \cup ParseCalls

NextPure ==
  \/ CallGenerateTabName
  \/ CallParseRawRequest

SpecPure == InitPure /\ [][NextPure]_vars

\* Every await of an invocation settles: a pending promise or timeout of the
\* host resolves or rejects.
FairSpec == Spec /\ \A k \in CycleIds : WF_vars(CycleStep(k))

(***************************************************************************)
(* Properties                                                              *)
(***************************************************************************)

\* Steps of invocation k, recognised from the state before and after.

\* saveStorage of the final saveKnownSessions settles, written or dropped
WriteStep(k) == cyc[k].pc = "saveWrite" /\ cyc'[k].pc # "saveWrite"

\* ... and the write went through (no failure happened in the step)
WriteSucceeded(k) == WriteStep(k) /\ faults' = faults

\* invocation k returns normally
Completes(k) == InFlight(cyc[k]) /\ cyc'[k].pc = "done"

LogEntries(c) == {c.log[i] : i \in 1..Len(c.log)}

\* The rename calls invocation c has made for session id
RenamesOf(c, id) == {i \in 1..Len(c.renameCalls) : c.renameCalls[i].id = id}

\* The entries of sessions whose candidate name was generated
Generated(c) == {e \in LogEntries(c) : e.out \in {"alreadyCorrect", "rename"}}

C2_NoRenameWhenEqual ==
  \A k \in CycleIds :
    \A e \in Generated(cyc[k]) :
      e.cur = e.cand => RenamesOf(cyc[k], e.id) = {}

\* An invocation found a session already carrying its candidate name.
C2_Witness ==
  \E k \in CycleIds :
    \E e \in Generated(cyc[k]) :
      e.cur = e.cand /\ e.cand # <<>> /\ RenamesOf(cyc[k], e.id) = {}

\* C3: a session that was fetched and parsed and whose candidate name differs
\* from its current name gets exactly one rename call from the invocation,
\* with the session's id and the candidate name.
C3_RenameOnce ==
  \A k \in CycleIds :
    \A e \in Generated(cyc[k]) :
      e.cur # e.cand =>
        /\ Cardinality(RenamesOf(cyc[k], e.id)) = 1
        /\ \A i \in RenamesOf(cyc[k], e.id) : cyc[k].renameCalls[i].name = e.cand

\* A rename call with the candidate name has been made and has resolved.
C3_Witness ==
  \E k \in CycleIds :
    \E e \in Generated(cyc[k]) :
      /\ e.cur # e.cand
      /\ e.rename = "ok"
      /\ \E i \in RenamesOf(cyc[k], e.id) : cyc[k].renameCalls[i].name = e.cand

\* C4: a session whose id is in the known set the invocation loaded is given
\* no detail fetch and no rename call by that invocation.
C4_KnownNotProcessed ==
  \A k \in CycleIds :
    \A id \in cyc[k].known :
      /\ id \notin Range(cyc[k].fetchCalls)
      /\ RenamesOf(cyc[k], id) = {}

\* An invocation listed a known session next to a new one, and fetched the
\* new one.
C4_Witness ==
  \E k \in CycleIds :
    /\ cyc[k].known \cap Ids(cyc[k].sessions) # {}
    /\ cyc[k].fetchCalls # <<>>

\* Invocation k takes a step
Steps(k) == <<cyc'[k].pc, cyc'[k].idx>> # <<cyc[k].pc, cyc[k].idx>>

\* getKnownSessions at the start of invocation k resolves, from the store
LoadSucceeded(k) == cyc[k].pc = "loadKnown" /\ Steps(k) /\ faults' = faults

\* saveStorage of clearKnownSessions settles
ResetWriteStep == reset.pc = "write" /\ reset'.pc = "idle"

Quiescent ==
  /\ phase = "mounted"
  /\ ~autoStart
  /\ timers = {}
  /\ \A k \in CycleIds : ~InFlight(cyc[k])

C8_Original ==
  \A k \in CycleIds :
    \A e \in LogEntries(cyc[k]) :
      e.fetch \in {"none", "failed"} =>
        e.out = "noDetails" /\ RenamesOf(cyc[k], e.id) = {}

\* The ids of the sessions whose iteration threw
FailedIds(c) ==
  {c.log[i].id : i \in {j \in 1..Len(c.log) :
                          c.log[j].out = "threw" \/ c.log[j].rename = "failed"}}

\* A step of invocation k inside the loop over the new sessions
LoopStep(k) == cyc[k].pc \in {"fetch", "rename", "delay"} /\ Steps(k)

\* The iteration of invocation k throws in this step
SessionFailedStep(k) == LoopStep(k) /\ FailedIds(cyc'[k]) # FailedIds(cyc[k])

ListFailed(k) == cyc[k].pc = "list" /\ cyc'[k] # cyc[k] /\ faults' # faults

\* C10: when the listing call fails the invocation ends there, having made
\* no detail fetch and no rename call and making none later; the persisted
\* known set, the host's sessions and the polling timer are as before, and
\* no other invocation is started or touched.
C10_ListFailureAborts ==
  [][\A k \in CycleIds :
       /\ ListFailed(k) =>
            /\ cyc'[k].pc = "aborted"
            /\ cyc[k].fetchCalls = <<>> /\ cyc[k].renameCalls = <<>>
            /\ storage' = storage
            /\ hostSessions' = hostSessions
            /\ UNCHANGED <<isPolling, pollingIntervalId, timers, nCycles>>
            /\ \A j \in CycleIds \ {k} : cyc'[j] = cyc[j]
       /\ cyc[k].pc = "aborted" => cyc'[k] = cyc[k]]_vars

\* An invocation has been aborted while the loop runs on and the store has
\* the ids an earlier invocation persisted.
C10_Witness ==
  \E k \in CycleIds :
    /\ cyc[k].pc = "aborted"
    /\ isPolling /\ timers # {}
    /\ storage.knownSessions # {}


\* The sessions whose payload invocation c found to be RawGarbage, the payload
\* that decodes to a single token.
UnparseableIds(c) == {e.id : e \in {x \in LogEntries(c) : x.raw = RawGarbage}}

\* Invocation k learns that the payload of the session at hand is RawGarbage.
SkipsUnparseable(k) ==
  /\ cyc[k].pc = "fetch"
  /\ Len(cyc'[k].log) = Len(cyc[k].log) + 1
  /\ cyc'[k].log[Len(cyc'[k].log)].raw = RawGarbage

ThrowingSources == {"throw", "syntax", "throwNull", "throwString"}

\* The default-algorithm output for the request of payload raw.
DefaultNameOf(raw) == DefaultTabName(ParsedPayload[raw].method, ParsedPayload[raw].path)

\* Invocation k generates the name of the session at hand with a source that throws.
NamesWithThrowingSource(k) ==
  /\ cyc[k].pc = "fetch"
  /\ Len(cyc'[k].log) = Len(cyc[k].log) + 1
  /\ cyc'[k].log[Len(cyc'[k].log)].src \in ThrowingSources
  /\ cyc'[k].log[Len(cyc'[k].log)].out \in {"alreadyCorrect", "rename"}

\* C12: when the naming source throws, the name generated is exactly the
\* default-algorithm output for the session's request; the invocation is not
\* aborted but goes on to the rename call or the next session, and the names
\* it generated for the other sessions stay as they were.
C12_ThrowFallsBack ==
  [][\A k \in CycleIds :
       /\ \A e \in Generated(cyc'[k]) :
            e.src \in ThrowingSources => e.cand = DefaultNameOf(e.raw)
       /\ NamesWithThrowingSource(k) =>
            /\ cyc'[k].pc \in {"rename", "fetch", "saveRead"}
            /\ \A i \in 1..Len(cyc[k].log) : cyc'[k].log[i] = cyc[k].log[i]
            /\ \A i \in 1..Len(cyc[k].renameCalls) :
                 cyc'[k].renameCalls[i] = cyc[k].renameCalls[i]]_vars

\* An invocation has named two sessions with a source that throws, and the
\* host has renamed both to the default-algorithm output.
C12_Witness ==
  \E k \in CycleIds :
    /\ Len(cyc[k].log) = 2
    /\ \A e \in LogEntries(cyc[k]) :
         e.src = "throw" /\ e.rename = "ok" /\ e.cand = NameGetA
    /\ \A i \in 1..Len(hostSessions) : hostSessions[i].name = NameGetA


\* C14 (as stated): the candidate name an invocation generates for a session
\* is what the naming function gives for the method, the path and the Host
\* header value parsed from the session's raw request.
C14_Original ==
  \A k \in CycleIds :
    \A e \in Generated(cyc[k]) :
      \E env \in Envs :
        e.cand = generateTabName(e.src, ParsedPayload[e.raw].method,
                                 ParsedPayload[e.raw].path, ParsedPayload[e.raw].host,
                                 env)


\* A call of generateTabName has returned (or thrown).
Named == call.fn = "generateTabName" /\ call.state = "returned"

\* C13 (as stated): generateTabName, in the component and in its localStorage
\* variant, does not throw and returns a non-empty string, whatever the
\* method, the path and the naming source are and whatever the source throws.
C13_Original ==
  Named =>
    /\ call.name # <<>>
    /\ ~call.part000.threw
    /\ call.part000.val # <<>>


\* A call of generateTabName with no custom function has returned: the name
\* is the output of the default algorithm.
NamedByDefault == Named /\ IsBlankSource(call.src)

\* ... and the method, a space and the cleaned path exceed maxLength
NamedTruncated ==
  NamedByDefault /\ Len(call.method) + 1 + Len(CleanPath(call.path)) > maxLength

EndsWithEllipsis(name) ==
  Len(name) >= 3 /\ SubSeq(name, Len(name) - 2, Len(name)) = Ellipsis

\* C15 (as stated): when method, space and cleaned path exceed 30 characters,
\* the default name has length len(M) + 1 + (27 - len(M)) + 3 and ends with
\* "...".
C15_Original ==
  NamedTruncated =>
    /\ Len(call.name) = Len(call.method) + 1 + (27 - Len(call.method)) + 3
    /\ EndsWithEllipsis(call.name)

\* C15 (amended): when method, space and cleaned path exceed 30 characters,
\* the default name is the method, a space, the first 26 - len(M) characters
\* of the cleaned path (none when the method has more than 26) and "...": its
\* length is len(M) + 1 + (26 - len(M)) + 3 = 30 for a method of at most 26
\* characters and len(M) + 4 for a longer one.
C15_TruncationLaw ==
  NamedTruncated =>
    LET m == Len(call.method)
        kept == IF m <= 26 THEN 26 - m ELSE 0
    IN /\ Len(call.name) = m + 1 + kept + 3
       /\ EndsWithEllipsis(call.name)
       /\ SubSeq(call.name, 1, m) = call.method
       /\ call.name[m + 1] = " "
       /\ SubSeq(call.name, m + 2, m + 1 + kept) = SubSeq(CleanPath(call.path), 1, kept)

\* GET with a path of more than 27 characters has been named: 30 characters
\* ending with "...".
C15_Witness ==
  /\ NamedTruncated
  /\ call.method = <<"G", "E", "T">>
  /\ Len(call.path) = MaxPathLen + 1
  /\ Len(call.name) = 30
  /\ EndsWithEllipsis(call.name)

\* C16 (as stated): the default name has at most 30 characters, whatever the
\* method and the path are.
C16_Original == NamedByDefault => Len(call.name) <= 30


\* The positions of a path that survive sanitization: no '?' or '#' at or
\* before the position, and a character of [A-Za-z0-9/_.-] at it.
KeptPositions(path) ==
  {i \in 1..Len(path) :
     /\ \A j \in 1..i : path[j] \notin {"?", "#"}
     /\ path[i] \in Range(UpperAlpha) \cup Range(LowerAlpha) \cup Digits
                      \cup {"/", "_", ".", "-"}}

\* How many kept positions there are up to position i.
Rank(K, i) == Cardinality({j \in K : j <= i})

\* C17: the default name is composed of the method, a space and the
\* sanitized path: the characters of the path before its first '?' or '#'
\* that are in [A-Za-z0-9/_.-], in their order, and nothing else (as long as
\* the name needs no truncation).
C17_PathSanitized ==
  NamedByDefault =>
    LET K == KeptPositions(call.path)
        m == Len(call.method)
    IN m + 1 + Cardinality(K) <= maxLength =>
         /\ Len(call.name) = m + 1 + Cardinality(K)
         /\ SubSeq(call.name, 1, m) = call.method
         /\ call.name[m + 1] = " "
         /\ \A i \in K : call.name[m + 1 + Rank(K, i)] = call.path[i]

\* The path "/a/b?x=1#frag" has been named with method GET: "GET /a/b".
C17_Witness ==
  /\ NamedByDefault
  /\ call.method = <<"G", "E", "T">>
  /\ call.path = <<"/", "a", "/", "b", "?", "x", "=", "1", "#", "f", "r", "a", "g">>
  /\ call.name = <<"G", "E", "T", " ", "/", "a", "/", "b">>


\* A call of parseRawRequest has returned.
Parsed == call.fn = "parseRawRequest" /\ call.state = "returned"

MinOf(S) == CHOOSE x \in S : \A y \in S : x <= y

\* The positions of a text that hold no whitespace
NonWS(raw) == {i \in 1..Len(raw) : raw[i] \notin WS}

\* The token that begins at position i: the characters up to the next
\* whitespace or the end of the text.
TokenAt(raw, i) ==
  SubSeq(raw, i,
         CHOOSE e \in i..Len(raw) :
           /\ \A k \in i..e : raw[k] \notin WS
           /\ e = Len(raw) \/ raw[e + 1] \in WS)

\* C18: parseRawRequest always returns; it returns null for a text without
\* any non-blank line (the empty text included) and for a text whose first
\* non-blank line holds a single token; for every other text it returns the
\* first token of the first non-blank line as method and the second as path.
C18_ParseLaw ==
  Parsed =>
    LET raw == call.raw
        N == NonWS(raw)
    IN IF N = {} THEN ~call.parsed.ok
       ELSE
         LET first == MinOf(N)
             method == TokenAt(raw, first)
             later == {j \in N : j >= first + Len(method)}
         IN IF later = {} THEN ~call.parsed.ok
            ELSE
              LET second == MinOf(later)
              IN IF \E k \in first..second : raw[k] \in {"\r", "\n"}
                   THEN ~call.parsed.ok
                   ELSE /\ call.parsed.ok
                        /\ call.parsed.method = method
                        /\ call.parsed.path = TokenAt(raw, second)

\* A text with a blank line before "G<tab> /a H" has been parsed: method G,
\* path /a.
C18_Witness ==
  /\ Parsed
  /\ call.raw = <<" ", "\r", "\n", "\t", "G", "\t", " ", "/", "a", " ", "H", "\r">>
  /\ call.parsed.ok
  /\ call.parsed.method = <<"G">>
  /\ call.parsed.path = <<"/", "a">>

MaxOf(S) == CHOOSE x \in S : \A y \in S : x >= y

\* Positions i..j of a text are on one line
SameLine(raw, i, j) == \A k \in i..j : raw[k] \notin {"\r", "\n"}

\* The spellings of "host:" in any letter case, character by character
HostSpellings == <<{"h", "H"}, {"o", "O"}, {"s", "S"}, {"t", "T"}, {":"}>>

\* The positions where a line's first non-blank characters spell "host:"
HostStarts(raw) ==
  {q \in NonWS(raw) :
     /\ \A k \in 1..(q - 1) : SameLine(raw, k, q) => raw[k] \in WS
     /\ q + 4 <= Len(raw)
     /\ \A n \in 1..5 : raw[q + n - 1] \in HostSpellings[n]}

\* The value of the header whose name begins at q: what follows the colon on
\* the same line, without the whitespace around it.
HeaderValue(raw, q) ==
  LET V == {i \in NonWS(raw) : i > q + 4 /\ SameLine(raw, q, i)}
  IN IF V = {} THEN <<>> ELSE SubSeq(raw, MinOf(V), MaxOf(V))

\* C19: the host parseRawRequest returns is the value, without the whitespace
\* around it, of the first line of the text (of all its lines, the request
\* line and the body included) whose first non-blank characters spell "host:"
\* in any letter case; it is empty when the text has no such line.
C19_HostExtraction ==
  Parsed /\ call.parsed.ok =>
    LET H == HostStarts(call.raw)
    IN call.parsed.host = IF H = {} THEN <<>> ELSE HeaderValue(call.raw, MinOf(H))

\* " hOsT:  h i<tab>" followed by "Host: k" has been parsed: the host is "h i".
C19_Witness ==
  /\ Parsed
  /\ call.raw = <<"G", " ", "/", "\r", "\n",
                  " ", "h", "O", "s", "T", ":", " ", " ", "h", " ", "i", "\t",
                  "\r", "\n", "H", "o", "s", "t", ":", " ", "k", "\r", "\n">>
  /\ call.parsed.ok
  /\ call.parsed.host = <<"h", " ", "i">>


\* The sources that read nothing but their arguments.
PureSources == Sources \ {"random"}

Unusable(stored) == ~stored.set \/ ~stored.knownIsArray

\* `await getKnownSessions()` of invocation k settles
LoadStep(k) == cyc[k].pc = "loadKnown" /\ cyc'[k].pc # "loadKnown"

\* An await of invocation k on the store settles
StorageStep(k) ==
  /\ cyc[k].pc \in {"loadKnown", "saveRead", "saveWrite", "finalRead"}
  /\ cyc'[k].pc # cyc[k].pc

\* C21: a storage failure does not reach the invocation.  When the store
\* holds nothing usable or the read throws, the known set the invocation
\* loads is empty (every listed session is new); when the write of the final
\* persist throws, the store keeps what it held; and whatever a storage
\* access does, the invocation goes on as after a successful one and is not
\* aborted.
C21_StorageFailuresContained ==
  [][\A k \in CycleIds :
       /\ LoadStep(k) /\ (faults' # faults \/ Unusable(storage)) =>
            /\ cyc'[k].known = {}
            /\ cyc'[k].newSessions = cyc[k].sessions
            /\ cyc'[k].pc = "fetch"
       /\ WriteStep(k) /\ faults' # faults =>
            /\ storage' = storage
            /\ cyc'[k].pc = IF cyc[k].newSessions = <<>> THEN "done" ELSE "finalRead"
       /\ StorageStep(k) => cyc'[k].pc # "aborted"]_vars

\* The store held an object whose knownSessions is no array; an invocation
\* loaded the empty set from it, processed its sessions, and its final write
\* was dropped: it is at its last step, the store as it was.
C21_Witness ==
  \E k \in CycleIds :
    /\ storage.set
    /\ ~storage.knownIsArray
    /\ storage.knownSessions = {1}
    /\ cyc[k].pc = "finalRead"
    /\ cyc[k].saved = "dropped"
    /\ cyc[k].known = {}
    /\ 1 \in Ids(cyc[k].sessions)


\* A step of some invocation in flight (an await settles)
InsideCycles == nCycles' = nCycles /\ \E k \in CycleIds : Steps(k)

\* The stop command: the running loop is made idle
StopCommand == isPolling /\ ~isPolling'

\* C22: no failure inside an invocation stops the loop.  A step of an
\* invocation, failing or not, leaves the timer and the running flag alone;
\* an active timer goes only with the stop command, which leaves none; and as
\* long as a timer is active its callback can start the next invocation,
\* however many failures there have been.
C22_NoFatalErrorPath ==
  /\ [](timers # {} /\ nCycles < MaxCycles => ENABLED TimerTick)
  /\ [][/\ InsideCycles => UNCHANGED timerVars
        /\ timers # {} /\ timers' = {} => StopCommand
        /\ StopCommand => timers' = {}]_vars

\* With the failures of the model used up and an invocation aborted by one,
\* the timer is active and a later invocation it started is in flight.
C22_Witness ==
  /\ faults = MaxFaults
  /\ isPolling
  /\ timers # {}
  /\ cyc[1].pc = "aborted"
  /\ nCycles = MaxCycles
  /\ InFlight(cyc[MaxCycles])


\* The loop is idle: no timer is active and none is about to be started
Idle == phase = "mounted" /\ ~autoStart /\ ~isPolling /\ timers = {}

\* C23: stopping the loop does not cancel an invocation in flight.  The stop
\* command leaves every invocation as it is, and an invocation in flight can
\* always take its next step, whether the loop is running or idle.
C23_StopDoesNotCancel ==
  /\ [](\A k \in CycleIds : InFlight(cyc[k]) => ENABLED CycleStep(k))
  /\ [][StopCommand => cyc' = cyc]_vars

\* The loop has been started by the automatic start and then stopped; the one
\* invocation there is, begun by that start, is awaiting its first detail
\* request, and the step in which it issues a rename call can be taken.
C23_Witness ==
  /\ Idle
  /\ nCycles = 1
  /\ cyc[1].pc = "fetch"
  /\ cyc[1].renameCalls = <<>>
  /\ ENABLED (FetchResolve(1) /\ cyc'[1].pc = "rename")


\* An invocation is begun in this step
Begins == nCycles' = nCycles + 1

\* C24: nothing keeps invocations from overlapping.  While an invocation is
\* in flight the timer callback (with a timer active) and the Test trigger
\* can begin another one; beginning it leaves the invocations there are as
\* they are, and the new one starts at its listing call.
C24_OverlapUnguarded ==
  /\ [](nCycles < MaxCycles /\ (\E k \in CycleIds : InFlight(cyc[k])) =>
          /\ timers # {} => ENABLED TimerTick
          /\ phase = "mounted" => ENABLED OnTestClick)
  /\ [][Begins =>
          /\ \A k \in 1..nCycles : cyc'[k] = cyc[k]
          /\ cyc'[nCycles + 1].pc = "list"]_vars

\* Two invocations are in flight, each with a rename call pending.
C24_Witness ==
  /\ nCycles = 2
  /\ cyc[1].pc = "rename"
  /\ cyc[2].pc = "rename"


\* C25 (as stated): in every reachable state isPolling is true exactly when a
\* periodic timer is active, and at most one periodic timer is active.
C25_Original ==
  /\ isPolling <=> timers # {}
  /\ Cardinality(timers) <= 1

\* C25 (amended): at most one periodic timer is active, and it is the one
\* pollingIntervalId names; an active timer means that isPolling is true; and
\* until the component is unmounted isPolling is true exactly when a timer is
\* active.
C25_FlagTracksTimer ==
  /\ Cardinality(timers) <= 1
  /\ TimerIds(timers) \subseteq {pollingIntervalId}
  /\ timers # {} => isPolling
  /\ phase # "unmounted" => (isPolling <=> timers # {})

\* The loop has been started as often as the model allows (the automatic
\* start among the starts): it is running with one timer.
C25_Witness ==
  /\ phase = "mounted"
  /\ ~autoStart
  /\ nCycles = MaxCycles
  /\ isPolling
  /\ Cardinality(timers) = 1
  /\ \A k \in CycleIds : cyc[k].pc = "list"


\* The loop enters the running state in this step
EntersRunning == ~isPolling /\ isPolling'

\* C26: entering the running state begins one invocation at once and leaves
\* a timer active, whose callback begins the others; in the idle state the
\* timer callback cannot run, and an invocation that begins there is begun by
\* the Test trigger, which is available and leaves the loop state as it is.
C26_CyclesFollowLoopState ==
  /\ [](~isPolling => ~ENABLED TimerTick)
  /\ [](isPolling /\ nCycles < MaxCycles => ENABLED TimerTick)
  /\ [](phase = "mounted" /\ nCycles < MaxCycles => ENABLED OnTestClick)
  /\ [][/\ EntersRunning => Begins /\ timers' # {}
        /\ Begins =>
             \/ isPolling' /\ timers' # {} /\ pollingIntervalId' # 0
             \/ UNCHANGED timerVars
        /\ Begins /\ ~isPolling /\ ~isPolling' =>
             timers = {} /\ phase = "mounted" /\ UNCHANGED timerVars]_vars

\* The loop is idle after having run, its invocation is over, and only the
\* Test trigger can begin another one.
C26_Witness ==
  /\ Idle
  /\ nCycles = 1
  /\ cyc[1].pc = "done"
  /\ ENABLED OnTestClick
  /\ ~ENABLED TimerTick


\* The listing call of invocation k resolves while the host has no session
ListsNothing(k) ==
  /\ cyc[k].pc = "list"
  /\ Steps(k)
  /\ faults' = faults
  /\ hostSessions = <<>>

\* C27: when the listing is empty the invocation shows the counts (0, 0, 0)
\* and returns: it has made no detail fetch and no rename call, and the store
\* and the host's sessions are as they were.
C27_EmptyListingStopsEarly ==
  [][\A k \in CycleIds :
       ListsNothing(k) =>
         /\ counts' = <<0, 0, 0>>
         /\ cyc'[k].pc = "done"
         /\ cyc[k].fetchCalls = <<>>
         /\ cyc[k].renameCalls = <<>>
         /\ storage' = storage
         /\ hostSessions' = hostSessions]_vars

\* With the known sessions of an earlier run in the store and no session on
\* the host, an invocation has returned: the counts are (0, 0, 0) and the
\* store holds what it held.
C27_Witness ==
  /\ hostSessions = <<>>
  /\ faults = 0
  /\ storage.set /\ storage.knownIsArray /\ storage.knownSessions = {1}
  /\ cyc[1].pc = "done"
  /\ counts = <<0, 0, 0>>


\* Invocation k has listed sessions and found none of them new
NothingNew(k) ==
  /\ cyc[k].pc \in {"saveRead", "saveWrite"}
  /\ cyc[k].sessions # <<>>
  /\ cyc[k].newSessions = <<>>

\* Invocation k lists what an invocation completed before it began had
\* listed, the host's sessions are as listed, the ids listed are the known
\* sessions stored, and no session has been named so far.
RunsAgain(k) ==
  /\ cyc[k].sessions # <<>>
  /\ cyc[k].sessions = Listing
  /\ Ids(cyc[k].sessions) \subseteq cyc[k].settled
  /\ storage.knownSessions = Ids(cyc[k].sessions)
  /\ evaluated = {}

ListedAt(c, id) == CHOOSE i \in 1..Len(c.sessions) : c.sessions[i].id = id

\* The detail fetches and rename calls of invocation c so far follow the
\* listing: each fetch is for a session listed after those fetched before,
\* each rename call is for a session fetched, and for one listed after those
\* of the rename calls before.
InListingOrder(c) ==
  /\ \A i \in 1..Len(c.fetchCalls) : \E j \in 1..Len(c.sessions) :
        c.sessions[j].id = c.fetchCalls[i]
  /\ \A i, j \in 1..Len(c.fetchCalls) :
        i < j => ListedAt(c, c.fetchCalls[i]) < ListedAt(c, c.fetchCalls[j])
  /\ \A i \in 1..Len(c.renameCalls) : \E j \in 1..Len(c.fetchCalls) :
        c.fetchCalls[j] = c.renameCalls[i].id
  /\ \A i, j \in 1..Len(c.renameCalls) :
        i < j => ListedAt(c, c.renameCalls[i].id) < ListedAt(c, c.renameCalls[j].id)

\* A detail fetch of invocation k is made in this step
Fetches(k) == Len(cyc'[k].fetchCalls) > Len(cyc[k].fetchCalls)

\* A rename call of invocation k is made in this step
CallsRename(k) == Len(cyc'[k].renameCalls) > Len(cyc[k].renameCalls)

\* C29: within an invocation the new sessions are processed in the order of
\* the listing.  Every detail fetch made is for the first new session listed
\* after the one fetched last, and it is made only once the step before it
\* of the iteration before (fetch, rename call or delay) has resolved; every
\* rename call made is for the session fetched last, so that it precedes the
\* fetch of every session listed later.
C29_ProcessedInListingOrder ==
  /\ [](\A k \in CycleIds : InFlight(cyc[k]) => InListingOrder(cyc[k]))
  /\ [][\A k \in CycleIds :
          /\ Fetches(k) =>
               /\ \E id \in Ids(cyc'[k].sessions) :
                    /\ cyc'[k].fetchCalls = Append(cyc[k].fetchCalls, id)
                    /\ id \notin cyc'[k].known
                    /\ \A j \in 1..(ListedAt(cyc'[k], id) - 1) :
                         \/ cyc'[k].sessions[j].id \in cyc'[k].known
                         \/ cyc'[k].sessions[j].id \in Range(cyc[k].fetchCalls)
               /\ cyc'[k].renameCalls = cyc[k].renameCalls
               /\ cyc'[k].pc = "fetch"
               /\ Steps(k)
          /\ CallsRename(k) =>
               /\ cyc[k].pc = "fetch"
               /\ cyc'[k].pc = "rename"
               /\ cyc'[k].fetchCalls = cyc[k].fetchCalls
               /\ \E call_ \in Range(cyc'[k].renameCalls) :
                    /\ cyc'[k].renameCalls = Append(cyc[k].renameCalls, call_)
                    /\ call_.id = cyc[k].fetchCalls[Len(cyc[k].fetchCalls)]
          /\ cyc[k].pc \in {"fetch", "rename", "delay"} /\ ~Steps(k) =>
               ~Fetches(k) /\ ~CallsRename(k)]_vars

\* An invocation that listed two sessions has fetched and called the rename
\* of both, the first listed first.
C29_Witness ==
  \E k \in CycleIds :
    /\ Len(cyc[k].sessions) = 2
    /\ cyc[k].fetchCalls = <<cyc[k].sessions[1].id, cyc[k].sessions[2].id>>
    /\ Len(cyc[k].renameCalls) = 2
    /\ cyc[k].renameCalls[1].id = cyc[k].sessions[1].id
    /\ cyc[k].renameCalls[2].id = cyc[k].sessions[2].id
    /\ cyc[k].pc = "rename"


\* C30 (as stated): between finishing one new session, whatever its outcome,
\* and starting the next one, the invocation waits: the detail fetch of
\* every new session but the first is made when the delay resolves.
C30_Original ==
  [][\A k \in CycleIds :
       Fetches(k) /\ cyc[k].fetchCalls # <<>> => cyc[k].pc = "delay"]_vars


\* C31: the name is the default algorithm's output when the naming source is
\* empty or only whitespace, when the custom function returns a value that
\* is not a string, and when it returns a string that is empty after
\* trimming; when it returns a string with something in it, the name is
\* that string without the whitespace around it.  Both variants of
\* generateTabName agree on this.
C31_DefaultOrTrimmedResult ==
  Named =>
    /\ call.src \in {"", " ", "number"} => call.name = DefaultTabName(call.method, call.path)
    /\ call.src = "host" /\ call.host = <<>> =>
         call.name = DefaultTabName(call.method, call.path)
    /\ call.src = "host" /\ call.host # <<>> => call.name = call.host
    /\ call.src = "padded" => call.name = call.method
    /\ call.src = "random" => call.name = call.env[1]
    /\ call.src \in {"", " ", "number", "host", "padded", "random"} =>
         /\ ~call.part000.threw
         /\ call.part000.val = call.name

\* A custom function that returns the method with a blank on either side has
\* named the call with the method alone.
C31_Witness ==
  /\ Named
  /\ call.src = "padded"
  /\ call.name = call.method
  /\ call.name # DefaultTabName(call.method, call.path)


\* The rename calls for session id on record: invocation and place
RenameCallsFor(id) ==
  {ki \in CycleIds \X (1..MaxSessions) :
     /\ ki[2] <= Len(cyc[ki[1]].renameCalls)
     /\ cyc[ki[1]].renameCalls[ki[2]].id = id}

\* C32 (as stated): with no reset, the host's rename call is made at most
\* once for a session id, whatever the invocations and however they overlap.
C32_Original ==
  \A id \in SessionIds : Cardinality(RenameCallsFor(id)) <= 1


\* A reset has completed, none is in flight, nothing in the environment has
\* failed, and no invocation started after the reset has got to its write.
ResetStands ==
  /\ reset.begun # NoReset
  /\ reset.pc = "idle"
  /\ faults = 0
  /\ \A k \in CycleIds :
       k > reset.begun => cyc[k].pc \notin {"finalRead", "done"}

\* C34 (as stated): after a reset has completed the persisted known set is
\* empty and stays so until an invocation started after the reset persists
\* it; an invocation in flight during the reset does not fill it again.
C34_Original == ResetStands => storage.knownSessions = {}


\* C35 (as stated): once the component is unmounted no interval timer is
\* active and no invocation is started, also when the unmount comes before
\* the automatic start.
C35_Original ==
  [][phase' = "unmounted" => timers' = {} /\ nCycles' = nCycles]_vars


\* C36 (as stated): the naming source an invocation uses is the one stored:
\* while no naming function has been saved, every name generated is the
\* default algorithm's output, whatever has been typed in the panel.
C36_Original ==
  \A k \in CycleIds :
    \A e \in Generated(cyc[k]) :
      storage.customNamingFunction = "" => e.cand = DefaultNameOf(e.raw)


\* Invocations have been started and none is in flight, with the panel
\* mounted and nothing in the environment having failed.
AtRest ==
  /\ phase = "mounted"
  /\ nCycles >= 1
  /\ \A k \in CycleIds : ~InFlight(cyc[k])
  /\ faults = 0

\* C37 (as stated): whenever no invocation is in flight, the known count
\* shown is the size of the known set stored.
C37_Original ==
  AtRest => counts[2] = Cardinality(getStorage(storage).knownSessions)


\* The write of a setting saved from the panel resolves in this step
SettingWriteStep == save.pc = "write" /\ save'.pc = "idle"

\* C33 (as stated): the writes to the stored object do not lose each other's
\* fields, however they interleave with an invocation in flight and with
\* nothing in the environment failing: the save of the known sessions leaves
\* the stored naming function and polling interval as they are, and the
\* save of the naming function or of the polling interval leaves the stored
\* known sessions as they are.
C33_Original ==
  [][faults' = 0 =>
       /\ \A k \in CycleIds :
            WriteStep(k) =>
              /\ getStorage(storage').customNamingFunction =
                   getStorage(storage).customNamingFunction
              /\ getStorage(storage').pollingInterval = getStorage(storage).pollingInterval
       /\ SettingWriteStep =>
            getStorage(storage').knownSessions = getStorage(storage).knownSessions]_vars


\* The polling interval is changed in the panel in this step
IntervalChanges == phase = "mounted" /\ pollingInterval' # pollingInterval

\* C38: a change of the polling interval while the loop is running leaves
\* it running with exactly one timer, which has the new interval, and starts
\* one invocation, leaving those in flight as they are; a change while the
\* loop is idle leaves it idle, with no timer, and starts no invocation.
\* Every timer that is active has the interval shown.
C38_IntervalChangeRestarts ==
  /\ [](\A t \in timers : t.ms = pollingInterval)
  /\ [][IntervalChanges =>
          /\ isPolling =>
               /\ isPolling'
               /\ pollingIntervalId' # 0
               /\ timers' = {[id |-> pollingIntervalId', ms |-> pollingInterval']}
               /\ nCycles' = nCycles + 1
               /\ cyc'[nCycles'].pc = "list"
               /\ \A k \in CycleIds \ {nCycles'} : cyc'[k] = cyc[k]
          /\ ~isPolling =>
               /\ ~isPolling'
               /\ timers = {} /\ timers' = {}
               /\ pollingIntervalId' = pollingIntervalId
               /\ nCycles' = nCycles
               /\ cyc' = cyc]_vars

\* The interval has been changed while the loop was running: the loop runs
\* on one timer of the new interval, and a second invocation has been
\* started beside the one of the automatic start.
C38_Witness ==
  /\ isPolling
  /\ pollingInterval = 5000
  /\ save.field = "pollingInterval"
  /\ timers = {[id |-> pollingIntervalId, ms |-> 5000]}
  /\ nCycles = 2
  /\ cyc[1].pc = "rename"
  /\ cyc[2].pc = "list"

====
